---- MODULE Spec2Model ----
(***************************************************************************)
(* Model of src/text_agent.rs: the hidden <input> "text agent", the        *)
(* document-level capture callbacks, the event channel and the per-frame   *)
(* drain into the egui input batches.                                      *)
(*                                                                         *)
(* Conventions                                                             *)
(*  - a Rust String / &str is a sequence of one-character strings; a       *)
(*    non-ASCII character is written by its code point ("U+00E9").         *)
(*  - Option<T> is a sequence of length 0 (None) or 1 (Some(x)).           *)
(*  - the document is the sequence of the body's children, in order.       *)
(***************************************************************************)
EXTENDS Integers, Sequences, FiniteSets, TLC

\* ------------------------------------------------------------------ bounds
\* messages ever sent on the channel, in the runs of Spec and SpecUpdate
MaxSent == 3
\* messages ever sent on the channel, in the runs of SpecKeys
MaxKeySent == 2
MaxAgents == 2
NumContexts == 2

\* ----------------------------------------------------------------- options
None == <<>>
Some(x) == <<x>>
is_some(o) == Len(o) = 1
is_none(o) == Len(o) = 0

\* ----------------------------------------------------------------- strings
TwoByteChars == {"U+00E9"}
ThreeByteChars == {"U+3042"}

\* UTF-8 width of one character.
Utf8Len(c) == IF c \in TwoByteChars THEN 2 ELSE IF c \in ThreeByteChars THEN 3 ELSE 1

RECURSIVE str_len(_)
\* str::len(): the length in BYTES of the UTF-8 encoding.
str_len(s) == IF s = <<>> THEN 0 ELSE Utf8Len(Head(s)) + str_len(Tail(s))

\* str::is_empty()
str_is_empty(s) == str_len(s) = 0

\* str::starts_with(char)
starts_with(s, c) == Len(s) >= 1 /\ s[1] = c

AGENT_ID == <<"e","g","u","i","_","t","e","x","t","_","a","g","e","n","t">>

K_Alt == <<"A","l","t">>
K_ArrowDown == <<"A","r","r","o","w","D","o","w","n">>
K_ArrowLeft == <<"A","r","r","o","w","L","e","f","t">>
K_ArrowRight == <<"A","r","r","o","w","R","i","g","h","t">>
K_ArrowUp == <<"A","r","r","o","w","U","p">>
K_Backspace == <<"B","a","c","k","s","p","a","c","e">>
K_CapsLock == <<"C","a","p","s","L","o","c","k">>
K_ContextMenu == <<"C","o","n","t","e","x","t","M","e","n","u">>
K_Control == <<"C","o","n","t","r","o","l">>
K_Delete == <<"D","e","l","e","t","e">>
K_End == <<"E","n","d">>
K_Enter == <<"E","n","t","e","r">>
K_Esc == <<"E","s","c">>
K_Escape == <<"E","s","c","a","p","e">>
K_Help == <<"H","e","l","p">>
K_Home == <<"H","o","m","e">>
K_Insert == <<"I","n","s","e","r","t">>
K_Meta == <<"M","e","t","a">>
K_NumLock == <<"N","u","m","L","o","c","k">>
K_PageDown == <<"P","a","g","e","D","o","w","n">>
K_PageUp == <<"P","a","g","e","U","p">>
K_Pause == <<"P","a","u","s","e">>
K_ScrollLock == <<"S","c","r","o","l","l","L","o","c","k">>
K_Shift == <<"S","h","i","f","t">>
K_Space == <<"S","p","a","c","e">>
K_Tab == <<"T","a","b">>

Digits == {"0","1","2","3","4","5","6","7","8","9"}
LowerCase == {"a","b","c","d","e","f","g","h","i","j","k","l","m",
              "n","o","p","q","r","s","t","u","v","w","x","y","z"}
UpperCase == {"A","B","C","D","E","F","G","H","I","J","K","L","M",
              "N","O","P","Q","R","S","T","U","V","W","X","Y","Z"}
ToUpper == [c \in LowerCase |->
              CASE c = "a" -> "A" [] c = "b" -> "B" [] c = "c" -> "C" [] c = "d" -> "D"
                [] c = "e" -> "E" [] c = "f" -> "F" [] c = "g" -> "G" [] c = "h" -> "H"
                [] c = "i" -> "I" [] c = "j" -> "J" [] c = "k" -> "K" [] c = "l" -> "L"
                [] c = "m" -> "M" [] c = "n" -> "N" [] c = "o" -> "O" [] c = "p" -> "P"
                [] c = "q" -> "Q" [] c = "r" -> "R" [] c = "s" -> "S" [] c = "t" -> "T"
                [] c = "u" -> "U" [] c = "v" -> "V" [] c = "w" -> "W" [] c = "x" -> "X"
                [] c = "y" -> "Y" [] c = "z" -> "Z"]
NumKey == [c \in Digits |->
              CASE c = "0" -> "Num0" [] c = "1" -> "Num1" [] c = "2" -> "Num2"
                [] c = "3" -> "Num3" [] c = "4" -> "Num4" [] c = "5" -> "Num5"
                [] c = "6" -> "Num6" [] c = "7" -> "Num7" [] c = "8" -> "Num8"
                [] c = "9" -> "Num9"]

\* translate_key: the name of the egui::Key for a DOM key string, or None.
translate_key(key) ==
    CASE key = K_ArrowDown -> Some("ArrowDown")
      [] key = K_ArrowLeft -> Some("ArrowLeft")
      [] key = K_ArrowRight -> Some("ArrowRight")
      [] key = K_ArrowUp -> Some("ArrowUp")
      [] key = K_Esc \/ key = K_Escape -> Some("Escape")
      [] key = K_Tab -> Some("Tab")
      [] key = K_Backspace -> Some("Backspace")
      [] key = K_Enter -> Some("Enter")
      [] key = K_Space \/ key = <<" ">> -> Some("Space")
      [] key = K_Help \/ key = K_Insert -> Some("Insert")
      [] key = K_Delete -> Some("Delete")
      [] key = K_Home -> Some("Home")
      [] key = K_End -> Some("End")
      [] key = K_PageUp -> Some("PageUp")
      [] key = K_PageDown -> Some("PageDown")
      [] Len(key) = 1 /\ key[1] \in Digits -> Some(NumKey[key[1]])
      [] Len(key) = 1 /\ key[1] \in LowerCase -> Some(ToUpper[key[1]])
      [] Len(key) = 1 /\ key[1] \in UpperCase -> Some(key[1])
      [] OTHER -> None

IgnoredKeys ==
    {K_Alt, K_ArrowDown, K_ArrowLeft, K_ArrowRight, K_ArrowUp, K_Backspace,
     K_CapsLock, K_ContextMenu, K_Control, K_Delete, K_End, K_Enter, K_Esc,
     K_Escape, K_Help, K_Home, K_Insert, K_Meta, K_NumLock, K_PageDown,
     K_PageUp, K_Pause, K_ScrollLock, K_Shift, K_Tab}

should_ignore_key(key) ==
    LET is_function_key == starts_with(key, "F") /\ str_len(key) > 1
    IN  is_function_key \/ key \in IgnoredKeys

\* modifiers_from_event: egui::Modifiers of a web_sys::KeyboardEvent.
modifiers_from_event(event) ==
    [alt |-> event.alt_key,
     ctrl |-> event.ctrl_key,
     shift |-> event.shift_key,
     mac_cmd |-> event.meta_key,
     command |-> event.ctrl_key \/ event.meta_key]

\* ------------------------------------------------------------------ events
\* egui::Event::Key { key, physical_key, pressed, modifiers, repeat }
KeyEvent(key, pressed, modifiers) ==
    [type |-> "Key", key |-> key, physical_key |-> Some(key),
     pressed |-> pressed, modifiers |-> modifiers, repeat |-> FALSE]

\* egui::Event::Text(String)
TextEvent(text) == [type |-> "Text", text |-> text]

\* One message of the channel: (Option<egui::Event>, Option<TouchWebEvent>).
Msg(ev, touch) == <<ev, touch>>
Fired == "Fired"

RECURSIVE EventsOf(_)
\* The egui events carried by a sequence of messages, in order.
EventsOf(msgs) ==
    IF msgs = <<>> THEN <<>>
    ELSE Head(msgs)[1] \o EventsOf(Tail(msgs))

IsPrefix(s, t) == Len(s) <= Len(t) /\ SubSeq(t, 1, Len(s)) = s

\* --------------------------------------------------------------- the page
\* navigator.userAgent values of the runs: the set of device names a user
\* agent string contains; <<>> stands for a user agent that cannot be read.
UA_Desktop == Some({"Windows"})
UA_Mobile == Some({"Android", "Mobile"})
UA_Unreadable == None
UserAgents == {UA_Desktop, UA_Mobile, UA_Unreadable}

MOBILE_DEVICE == {"Android", "iPhone", "iPad", "iPod", "webOS", "BlackBerry"}

\* is_mobile(): Option<bool>
is_mobile(ua) ==
    IF is_none(ua) THEN None
    ELSE Some(\E name \in MOBILE_DEVICE : name \in ua[1])

\* window.inner_height(), in px.
WindowHeight == 100
\* Touch positions (y, in px) the callers of update_text_agent pass.
TouchYs == {40, 60, 90}

\* The <input> install_text_agent creates. is_composing is the Cell its on_input
\* closure reads; composition is the browser's side: an IME composition is open
\* in the element (compositionstart fired, compositionend not yet).
NewAgent ==
    [tag |-> "input", id |-> AGENT_ID, hidden |-> TRUE, focused |-> FALSE,
     value |-> <<>>, is_composing |-> FALSE, composition |-> FALSE,
     autofocus |-> TRUE, size |-> 1,
     style |-> [opacity |-> "0", z_index |-> "-1", position |-> "absolute",
                top |-> "0px", left |-> "0px"]]

\* The <canvas> of the page, with no inline position yet.
Canvas == [tag |-> "canvas", id |-> <<>>, style |-> [position |-> None, top |-> None]]

\* document.get_element_by_id: index of the first element with the id, 0 if none.
get_element_by_id(doc, id) ==
    LET hits == {i \in DOMAIN doc : doc[i].id = id}
    IN  IF hits = {} THEN 0 ELSE CHOOSE i \in hits : \A j \in hits : i <= j

\* document.query_selector(tag): index of the first element of the tag, 0 if none.
query_selector(doc, tag) ==
    LET hits == {i \in DOMAIN doc : doc[i].tag = tag}
    IN  IF hits = {} THEN 0 ELSE CHOOSE i \in hits : \A j \in hits : i <= j

set_hidden(doc, i, h) == [doc EXCEPT ![i].hidden = h]
set_value(doc, i, v) == [doc EXCEPT ![i].value = v]
\* HtmlElement::focus() that succeeded: the element takes the focus from any other.
focus(doc, i) ==
    [j \in DOMAIN doc |->
        IF doc[j].tag = "input" THEN [doc[j] EXCEPT !.focused = (j = i)] ELSE doc[j]]
\* HtmlElement::blur() that succeeded.
blur(doc, i) == [doc EXCEPT ![i].focused = FALSE]

RemoveAt(s, i) == SubSeq(s, 1, i - 1) \o SubSeq(s, i + 1, Len(s))

\* "absent" | "hidden" | "visible": what a lookup of the agent by id finds.
AgentState(doc) ==
    LET a == get_element_by_id(doc, AGENT_ID)
    IN  IF a = 0 THEN "absent" ELSE IF doc[a].hidden THEN "hidden" ELSE "visible"

\* The canvas's inline `top`: Some(percent) once written, None before that and
\* without a canvas.
CanvasTop(doc) ==
    LET c == query_selector(doc, "canvas")
    IN  IF c = 0 THEN None ELSE doc[c].style.top

\* ------------------------------------------------------------------- state
VARIABLES
    document,   \* children of <body>, in document order
    user_agent, \* navigator.userAgent
    listening,  \* install_document_events has registered its closures
    channel,    \* TextAgentChannel: messages sent and not yet received
    contexts,   \* contexts[i]: egui_input.events of the i-th GUI context
    redraws,    \* RequestRedraw events the last run of propagate_text sent
    panicked,   \* a Rust panic has unwound out of a callback or system
    sent,       \* history: every message ever sent on the channel
    delivered,  \* history: every event pushed to an egui_input.events, in order
    last        \* history: the last operation, its inputs and what it did

vars == <<document, user_agent, listening, channel, contexts, redraws,
          panicked, sent, delivered, last>>

\* TextAgentChannel::default and the page, with its canvas, before any install call.
Init ==
    /\ document = <<Canvas>>
    /\ user_agent \in UserAgents
    /\ listening = FALSE
    /\ channel = <<>>
    /\ contexts = [i \in 1..NumContexts |-> <<>>]
    /\ redraws = 0
    /\ panicked = FALSE
    /\ sent = <<>>
    /\ delivered = <<>>
    /\ last = [op |-> "init"]

NumAgents == Cardinality({i \in DOMAIN document : document[i].id = AGENT_ID})

\* Sender::send on the unbounded channel, for a sequence of messages.
Send(msgs) ==
    /\ channel' = channel \o msgs
    /\ sent' = sent \o msgs

\* The messages the last operation sent on the channel.
Enqueued == SubSeq(sent, last.n_before + 1, Len(sent))

\* ---------------------------------------------------------------- installs
InstallTextAgent ==
    /\ ~panicked
    /\ NumAgents < MaxAgents
    /\ document' = Append(document, NewAgent)
    /\ last' = [op |-> "install_text_agent"]
    /\ UNCHANGED <<user_agent, listening, channel, contexts, redraws, panicked,
                   sent, delivered>>

InstallDocumentEvents ==
    /\ ~panicked
    /\ listening' = TRUE
    /\ last' = [op |-> "install_document_events"]
    /\ UNCHANGED <<document, user_agent, channel, contexts, redraws, panicked,
                   sent, delivered>>

\* The page (not this program) removes an agent element from the document.
RemoveAgent ==
    /\ ~panicked
    /\ \E i \in DOMAIN document :
          /\ document[i].id = AGENT_ID
          /\ document' = RemoveAt(document, i)
    /\ last' = [op |-> "remove_agent"]
    /\ UNCHANGED <<user_agent, listening, channel, contexts, redraws, panicked,
                   sent, delivered>>

\* ----------------------------------------------------------------- keydown
ModifierInputs ==
    {[alt_key |-> FALSE, ctrl_key |-> FALSE, shift_key |-> FALSE, meta_key |-> FALSE],
     [alt_key |-> FALSE, ctrl_key |-> TRUE, shift_key |-> FALSE, meta_key |-> FALSE],
     [alt_key |-> FALSE, ctrl_key |-> FALSE, shift_key |-> FALSE, meta_key |-> TRUE],
     [alt_key |-> TRUE, ctrl_key |-> FALSE, shift_key |-> TRUE, meta_key |-> FALSE]}

K_F1 == <<"F","1">>
KeyInputs == {<<"a">>, <<" ">>, K_Enter, K_F1, <<"U+00E9">>}

KeyboardEvents ==
    {[key |-> k, key_code |-> c, is_composing |-> ic, alt_key |-> m.alt_key,
      ctrl_key |-> m.ctrl_key, shift_key |-> m.shift_key, meta_key |-> m.meta_key] :
        k \in KeyInputs, c \in {65, 229}, ic \in BOOLEAN, m \in ModifierInputs}

\* text_agent(): index of the element the lookup by id finds; 0 where the
\* unwrap of get_element_by_id's None panics.
text_agent(doc) == get_element_by_id(doc, AGENT_ID)

text_agent_hidden_inverted(doc) == ~doc[text_agent(doc)].hidden
text_agent_hidden_always(doc) == TRUE
\* text_agent_hidden(), where text_agent() does not panic.
text_agent_hidden(doc) == doc[text_agent(doc)].hidden

is_ime_keydown_flag_only(event) == event.is_composing
\* The test that makes the keydown closure return at once.
is_ime_keydown(event) == event.is_composing \/ event.key_code = 229

\* The keydown closure: the messages it sends and whether it panics.
keydown(event, doc) ==
    IF is_ime_keydown(event)
    THEN [msgs |-> <<>>, panic |-> FALSE]
    ELSE
      LET modifiers == modifiers_from_event(event)
          key == event.key
          t == translate_key(key)
          first == IF is_some(t)
                   THEN <<Msg(Some(KeyEvent(t[1], TRUE, modifiers)), None)>>
                   ELSE <<>>
          asks_agent == ~modifiers.ctrl /\ ~modifiers.command /\ ~should_ignore_key(key)
      IN  IF ~asks_agent THEN [msgs |-> first, panic |-> FALSE]
          ELSE IF text_agent(doc) = 0 THEN [msgs |-> first, panic |-> TRUE]
          ELSE IF text_agent_hidden(doc)
               THEN [msgs |-> first \o <<Msg(Some(TextEvent(key)), None)>>, panic |-> FALSE]
               ELSE [msgs |-> first, panic |-> FALSE]

Keydown(events, cap) ==
    /\ ~panicked
    /\ listening
    /\ \E event \in events :
          LET r == keydown(event, document)
          IN  /\ Len(sent) + Len(r.msgs) <= cap
              /\ Send(r.msgs)
              /\ panicked' = r.panic
              /\ last' = [op |-> "keydown", event |-> event,
                          agent_before |-> AgentState(document),
                          n_before |-> Len(sent)]
    /\ UNCHANGED <<document, user_agent, listening, contexts, redraws, delivered>>

\* ------------------------------------------------------------------- keyup
\* The keyup closure reads the key and the modifiers of its event only.
KeyupEvents == {e \in KeyboardEvents : e.key_code = 65 /\ ~e.is_composing}

keyup_pressed(event) ==
    LET modifiers == modifiers_from_event(event)
        t == translate_key(event.key)
    IN  IF is_some(t)
        THEN <<Msg(Some(KeyEvent(t[1], TRUE, modifiers)), None)>>
        ELSE <<>>

\* The keyup closure: the messages it sends.
keyup(event) ==
    LET modifiers == modifiers_from_event(event)
        t == translate_key(event.key)
    IN  IF is_some(t)
        THEN <<Msg(Some(KeyEvent(t[1], FALSE, modifiers)), None)>>
        ELSE <<>>

Keyup(events, cap) ==
    /\ ~panicked
    /\ listening
    /\ \E event \in events :
          LET msgs == keyup(event)
          IN  /\ Len(sent) + Len(msgs) <= cap
              /\ Send(msgs)
              /\ last' = [op |-> "keyup", event |-> event,
                          agent_before |-> AgentState(document),
                          n_before |-> Len(sent)]
    /\ UNCHANGED <<document, user_agent, listening, contexts, redraws, panicked,
                   delivered>>

\* ---------------------------------------------------------------- touchend
\* The touchend closure; focus_ok: whether input.focus() returns Ok.
touchend(doc, focus_ok) ==
    LET a == get_element_by_id(doc, AGENT_ID)
    IN  IF a = 0
        THEN [document |-> doc, msgs |-> <<>>, calls |-> <<>>]   \* "Agent element not found"
        ELSE
          LET d1 == set_hidden(doc, a, FALSE)
              d2 == IF focus_ok THEN focus(d1, a) ELSE d1        \* "Unable to set focus"
          IN  [document |-> d2,
               msgs |-> <<Msg(None, Some(Fired))>>,
               calls |-> <<"set_hidden(false)",
                           IF focus_ok THEN "focus:ok" ELSE "focus:err">>]

Touchend(cap) ==
    /\ ~panicked
    /\ listening
    /\ \E focus_ok \in BOOLEAN :
          LET r == touchend(document, focus_ok)
          IN  /\ Len(sent) + Len(r.msgs) <= cap
              /\ document' = r.document
              /\ Send(r.msgs)
              /\ last' = [op |-> "touchend", agent_before |-> AgentState(document),
                          n_before |-> Len(sent), calls |-> r.calls]
    /\ UNCHANGED <<user_agent, listening, contexts, redraws, panicked, delivered>>

\* ------------------------------------------------------------------- input
\* What the user's typing, pasting or IME leaves in the element per input event.
InputTexts == {<<>>, <<"a">>, <<"U+00E9">>, <<"U+3042">>, <<"a", "b">>}

on_input_keep_long(doc, i) ==
    LET text == doc[i].value
    IN  IF ~str_is_empty(text) /\ ~doc[i].is_composing /\ str_len(text) = 1
        THEN [document |-> set_value(doc, i, <<>>),
              msgs |-> <<Msg(Some(TextEvent(text)), None)>>]
        ELSE [document |-> doc, msgs |-> <<>>]

\* The on_input closure of the element at index i, run on value `text`.
on_input(doc, i) ==
    LET text == doc[i].value
    IN  IF ~str_is_empty(text) /\ ~doc[i].is_composing
        THEN [document |-> set_value(doc, i, <<>>),
              msgs |-> IF str_len(text) = 1
                       THEN <<Msg(Some(TextEvent(text)), None)>>
                       ELSE <<>>]
        ELSE [document |-> doc, msgs |-> <<>>]

\* The browser edits the value of the focused agent and fires its input event.
Input(texts, cap) ==
    /\ ~panicked
    /\ \E i \in DOMAIN document, typed \in texts :
          /\ document[i].id = AGENT_ID
          /\ document[i].focused
          /\ LET before == set_value(document, i, document[i].value \o typed)
                 r == on_input(before, i)
             IN  /\ Len(sent) + Len(r.msgs) <= cap
                 /\ document' = r.document
                 /\ Send(r.msgs)
                 /\ last' = [op |-> "input", target |-> i,
                             is_composing |-> before[i].is_composing,
                             value_before |-> before[i].value,
                             n_before |-> Len(sent)]
    /\ UNCHANGED <<user_agent, listening, contexts, redraws, panicked, delivered>>

\* ------------------------------------------------------------ composition
\* The IME opens a composition in the focused agent: the browser fires
\* compositionstart. install_text_agent registers a listener for "input" only,
\* so no code runs and the is_composing Cell keeps its value.
CompositionStart ==
    /\ ~panicked
    /\ \E i \in DOMAIN document :
          /\ document[i].id = AGENT_ID
          /\ document[i].focused
          /\ ~document[i].composition
          /\ document' = [document EXCEPT ![i].composition = TRUE]
          /\ last' = [op |-> "compositionstart", target |-> i]
    /\ UNCHANGED <<user_agent, listening, channel, contexts, redraws, panicked,
                   sent, delivered>>

\* The IME commits or cancels: the browser fires compositionend; again no
\* listener of the program runs.
CompositionEnd ==
    /\ ~panicked
    /\ \E i \in DOMAIN document :
          /\ document[i].id = AGENT_ID
          /\ document[i].composition
          /\ document' = [document EXCEPT ![i].composition = FALSE]
          /\ last' = [op |-> "compositionend", target |-> i]
    /\ UNCHANGED <<user_agent, listening, channel, contexts, redraws, panicked,
                   sent, delivered>>

\* ------------------------------------------------------- update_text_agent
\* n / d rounded to the nearest integer, halves away from zero (f32::round), d > 0.
RoundDiv(n, d) ==
    IF n >= 0 THEN (2 * n + d) \div (2 * d) ELSE -((2 * (-n) + d) \div (2 * d))

Max(a, b) == IF a >= b THEN a ELSE b

\* keyboard_fraction and target_rel, in percent of the window height.
keyboard_fraction == 40
target_rel == 30

new_pos_percent_unclamped(y) ==
    RoundDiv(target_rel * WindowHeight - 100 * y, WindowHeight)

\* new_pos_percent for a touch at y px: round(max(target_rel - y/h, -keyboard_fraction) * 100).
new_pos_percent(y) ==
    RoundDiv(Max(target_rel * WindowHeight - 100 * y, -keyboard_fraction * WindowHeight),
             WindowHeight)

\* current_rel > keyboard_fraction
below_keyboard(y) == 100 * y > keyboard_fraction * WindowHeight

set_style(doc, i, prop, val) == [doc EXCEPT ![i].style[prop] = val]

\* DOM call results: ok.focus, ok.blur, ok.position, ok.top say whether
\* input.focus(), input.blur(), canvas_style.set_property("position", ..) and
\* canvas_style.set_property("top", ..) return Ok when the code makes the call.

enter_edit_refocus(doc, ua, a, c, maybe_touch_pos, ok) ==
    IF is_some(maybe_touch_pos) THEN
        LET d1 == set_hidden(doc, a, FALSE)
            c1 == <<"set_hidden(false)">>
        IN
        IF ~ok.focus THEN [document |-> d1, calls |-> c1 \o <<"focus:err">>]
        ELSE [document |-> focus(d1, a), calls |-> c1 \o <<"focus:ok">>]
    ELSE [document |-> doc, calls |-> <<>>]

enter_edit_when_shown(doc, ua, a, c, maybe_touch_pos, ok) ==
    LET is_already_editing == ~doc[a].hidden
    IN
    IF is_already_editing /\ is_some(maybe_touch_pos) THEN
        LET d1 == set_hidden(doc, a, FALSE)
            c1 == <<"set_hidden(false)">>
        IN
        IF ~ok.focus THEN [document |-> d1, calls |-> c1 \o <<"focus:err">>]
        ELSE [document |-> focus(d1, a), calls |-> c1 \o <<"focus:ok">>]
    ELSE [document |-> doc, calls |-> <<>>]

\* The `if editing_text` branch, agent at index a, canvas at index c.
enter_edit(doc, ua, a, c, maybe_touch_pos, ok) ==
    LET is_already_editing == doc[a].hidden
    IN
    IF is_already_editing /\ is_some(maybe_touch_pos) THEN
        LET d1 == set_hidden(doc, a, FALSE)
            c1 == <<"set_hidden(false)">>
        IN
        IF ~ok.focus THEN [document |-> d1, calls |-> c1 \o <<"focus:err">>]
        ELSE
          LET d2 == focus(d1, a)
              c2 == c1 \o <<"focus:ok">>
              y == maybe_touch_pos[1]
          IN
          IF below_keyboard(y) /\ is_mobile(ua) = Some(TRUE) THEN
              IF ~ok.position THEN [document |-> d2, calls |-> c2 \o <<"position:err">>]
              ELSE
                LET d3 == set_style(d2, c, "position", Some("absolute"))
                    c3 == c2 \o <<"position:ok">>
                IN  IF ~ok.top THEN [document |-> d3, calls |-> c3 \o <<"top:err">>]
                    ELSE [document |-> set_style(d3, c, "top", Some(new_pos_percent(y))),
                          calls |-> c3 \o <<"top:ok">>]
          ELSE [document |-> d2, calls |-> c2]
    ELSE [document |-> doc, calls |-> <<>>]

leave_edit_keep_top(doc, a, c, ok) ==
    IF ~ok.blur THEN [document |-> doc, calls |-> <<"blur:err">>]
    ELSE
      LET d1 == set_hidden(blur(doc, a), a, TRUE)
          c1 == <<"blur:ok", "set_hidden(true)">>
      IN
      IF ~ok.position THEN [document |-> d1, calls |-> c1 \o <<"position:err">>]
      ELSE [document |-> set_style(d1, c, "position", Some("absolute")),
            calls |-> c1 \o <<"position:ok">> \o
                      <<IF ok.top THEN "top:ok" ELSE "top:err">>]

\* The `else` branch (not editing), agent at index a, canvas at index c.
leave_edit(doc, a, c, ok) ==
    IF ~ok.blur THEN [document |-> doc, calls |-> <<"blur:err">>]
    ELSE
      LET d1 == set_hidden(blur(doc, a), a, TRUE)
          c1 == <<"blur:ok", "set_hidden(true)">>
      IN
      IF ~ok.position THEN [document |-> d1, calls |-> c1 \o <<"position:err">>]
      ELSE
        LET d2 == set_style(d1, c, "position", Some("absolute"))
            c2 == c1 \o <<"position:ok">>
        IN  IF ~ok.top THEN [document |-> d2, calls |-> c2 \o <<"top:err">>]
            ELSE [document |-> set_style(d2, c, "top", Some(0)),
                  calls |-> c2 \o <<"top:ok">>]

\* update_text_agent(editing_text, maybe_touch_pos): the document afterwards and
\* the DOM calls it made, in order.
update_text_agent(doc, ua, editing_text, maybe_touch_pos, ok) ==
    LET a == get_element_by_id(doc, AGENT_ID)
        c == query_selector(doc, "canvas")
    IN
    IF a = 0 THEN [document |-> doc, calls |-> <<"log:Agent element not found">>]
    ELSE IF c = 0 THEN [document |-> doc, calls |-> <<"log:No canvas found">>]
    ELSE IF editing_text THEN enter_edit(doc, ua, a, c, maybe_touch_pos, ok)
    ELSE leave_edit(doc, a, c, ok)

DomResults == [focus : BOOLEAN, blur : BOOLEAN, position : BOOLEAN, top : BOOLEAN]
AllOk == [focus |-> TRUE, blur |-> TRUE, position |-> TRUE, top |-> TRUE]
TouchPositions == {None} \cup {Some(y) : y \in TouchYs}

UpdateTextAgent(touches, results) ==
    /\ ~panicked
    /\ \E editing_text \in BOOLEAN, maybe_touch_pos \in touches, ok \in results :
          LET r == update_text_agent(document, user_agent, editing_text,
                                     maybe_touch_pos, ok)
          IN  /\ document' = r.document
              /\ last' = [op |-> "update_text_agent", editing_text |-> editing_text,
                          maybe_touch_pos |-> maybe_touch_pos,
                          agent_before |-> AgentState(document),
                          canvas_found |-> query_selector(document, "canvas") # 0,
                          top_before |-> CanvasTop(document),
                          calls |-> r.calls]
    /\ UNCHANGED <<user_agent, listening, channel, contexts, redraws, panicked,
                   sent, delivered>>

\* ---------------------------------------------------------- propagate_text
\* move_text_cursor(ime): the document afterwards, and whether text_agent() panicked.
move_text_cursor(doc, ua, ime) ==
    LET a == get_element_by_id(doc, AGENT_ID)
        c == query_selector(doc, "canvas")
    IN
    IF a = 0 THEN [document |-> doc, panic |-> TRUE]
    ELSE IF is_mobile(ua) = Some(FALSE) THEN
        IF is_some(ime) /\ c # 0
        THEN [document |-> set_style(set_style(set_style(doc, a, "position", "absolute"),
                                               a, "top", "ime.cursor_rect.top"),
                                     a, "left", "ime.cursor_rect.left"),
              panic |-> FALSE]
        ELSE [document |-> doc, panic |-> FALSE]
    ELSE [document |-> set_style(set_style(set_style(doc, a, "position", "absolute"),
                                           a, "top", "0px"), a, "left", "0px"),
          panic |-> FALSE]

RECURSIVE drain_newest_first(_, _, _)
drain_newest_first(st, ua, out) ==
    IF st.channel = <<>> \/ st.panic THEN st
    ELSE
      LET r == Head(st.channel)
          m == IF r[2] = Some(Fired)
               THEN move_text_cursor(st.document, ua, out.ime)
               ELSE [document |-> st.document, panic |-> FALSE]
      IN  drain_newest_first([channel |-> Tail(st.channel),
                 events |-> IF m.panic THEN st.events ELSE r[1] \o st.events,
                 document |-> m.document,
                 redraw |-> TRUE,
                 panic |-> m.panic], ua, out)

RECURSIVE drain_redraw_on_event(_, _, _)
drain_redraw_on_event(st, ua, out) ==
    IF st.channel = <<>> \/ st.panic THEN st
    ELSE
      LET r == Head(st.channel)
          m == IF r[2] = Some(Fired)
               THEN move_text_cursor(st.document, ua, out.ime)
               ELSE [document |-> st.document, panic |-> FALSE]
      IN  drain_redraw_on_event([channel |-> Tail(st.channel),
                 events |-> IF m.panic THEN st.events ELSE st.events \o r[1],
                 document |-> m.document,
                 redraw |-> st.redraw \/ is_some(r[1]),
                 panic |-> m.panic], ua, out)

RECURSIVE drain(_, _, _)
\* The `while let Ok(r) = channel.receiver.try_recv()` loop of one focused context
\* whose platform_output is `out`, from the loop state st =
\* [channel, events, document, redraw, panic].
drain(st, ua, out) ==
    IF st.channel = <<>> \/ st.panic THEN st
    ELSE
      LET r == Head(st.channel)
          m == IF r[2] = Some(Fired)
               THEN move_text_cursor(st.document, ua, out.ime)
               ELSE [document |-> st.document, panic |-> FALSE]
      IN  drain([channel |-> Tail(st.channel),
                 events |-> IF m.panic THEN st.events ELSE st.events \o r[1],
                 document |-> m.document,
                 redraw |-> TRUE,
                 panic |-> m.panic], ua, out)

last_focused(focused) ==
    LET hits == {i \in DOMAIN focused : focused[i]}
    IN  IF hits = {} THEN 0 ELSE CHOOSE i \in hits : \A j \in hits : i >= j

\* Index of the first context with egui_input.focused, 0 if none.
first_focused(focused) ==
    LET hits == {i \in DOMAIN focused : focused[i]}
    IN  IF hits = {} THEN 0 ELSE CHOOSE i \in hits : \A j \in hits : i <= j

\* platform_output of the context the frame reads.
PlatformOutputs ==
    [ime : {None, Some("cursor_rect")}, mutable_text_under_cursor : BOOLEAN]

\* editing_text as lines 52-58 compute it from the context's platform_output.
editing_text(out) == is_some(out.ime) \/ out.mutable_text_under_cursor

\* One run of the propagate_text system.
PropagateText ==
    /\ ~panicked
    /\ \E focused \in [1..NumContexts -> BOOLEAN], out \in PlatformOutputs :
          LET t == first_focused(focused)
              st == IF t = 0
                    THEN [channel |-> channel, events |-> <<>>, document |-> document,
                          redraw |-> FALSE, panic |-> FALSE]
                    ELSE drain([channel |-> channel, events |-> <<>>,
                                document |-> document, redraw |-> FALSE,
                                panic |-> FALSE], user_agent, out)
          IN  /\ channel' = st.channel
              /\ document' = st.document
              /\ contexts' = IF t = 0 THEN contexts
                             ELSE [contexts EXCEPT ![t] = @ \o st.events]
              /\ delivered' = delivered \o st.events
              /\ redraws' = IF st.redraw /\ ~st.panic THEN 1 ELSE 0
              /\ panicked' = st.panic
              /\ last' = [op |-> "propagate_text", target |-> t,
                          received |-> Len(channel) - Len(st.channel),
                          agent_before |-> AgentState(document),
                          appended |-> Len(st.events),
                          redraw |-> st.redraw /\ ~st.panic,
                          focused |-> focused,
                          editing_text |-> t # 0 /\ editing_text(out)]
    /\ UNCHANGED <<user_agent, listening, sent>>

\* ---------------------------------------------------------- specifications
\* Spec: the program as this revision wires it: the installs, the capture
\* callbacks and the frames of propagate_text (whose call of update_text_agent
\* is commented out), on a page that may drop the agent element.
FewKeyEvents ==
    {e \in KeyboardEvents :
        /\ ~e.alt_key /\ ~e.ctrl_key /\ ~e.meta_key
        /\ \/ e.key \in {<<"a">>, K_Enter} /\ e.key_code = 65 /\ ~e.is_composing
           \/ e.key = <<"a">> /\ e.key_code = 229 /\ e.is_composing}
FewKeyupEvents == {e \in FewKeyEvents : e.key = <<"a">> /\ ~e.is_composing}

Next ==
    \/ InstallTextAgent
    \/ InstallDocumentEvents
    \/ RemoveAgent
    \/ Keydown(FewKeyEvents, MaxSent)
    \/ Keyup(FewKeyupEvents, MaxSent)
    \/ Touchend(MaxSent)
    \/ Input(InputTexts, MaxSent)
    \/ PropagateText

Spec == Init /\ [][Next]_vars

\* SpecKeys: the keydown closure on every keyboard event of KeyboardEvents, in
\* every state of the agent (absent, hidden, shown by a touch, hidden again by
\* the host's update_text_agent(false, None)).
InitKeys == Init /\ user_agent = UA_Desktop

NextKeys ==
    \/ InstallTextAgent
    \/ InstallDocumentEvents
    \/ RemoveAgent
    \/ Keydown(KeyboardEvents, MaxKeySent)
    \/ Touchend(MaxKeySent)
    \/ UpdateTextAgent({None}, {AllOk})

SpecKeys == InitKeys /\ [][NextKeys]_vars

\* SpecUpdate: the host calls update_text_agent with any arguments, and every
\* DOM call it makes may fail, between touches and changes of the page.
NextUpdate ==
    \/ InstallTextAgent
    \/ InstallDocumentEvents
    \/ RemoveAgent
    \/ Touchend(MaxSent)
    \/ UpdateTextAgent(TouchPositions, DomResults)

\* The page may have no canvas (yet, or any more).
InitUpdate ==
    /\ document \in {<<Canvas>>, <<>>}
    /\ user_agent \in UserAgents
    /\ listening = FALSE
    /\ channel = <<>>
    /\ contexts = [i \in 1..NumContexts |-> <<>>]
    /\ redraws = 0
    /\ panicked = FALSE
    /\ sent = <<>>
    /\ delivered = <<>>
    /\ last = [op |-> "init"]

SpecUpdate == InitUpdate /\ [][NextUpdate]_vars

\* SpecKeyup: the keyup closure on every keyboard event of KeyboardEvents (the
\* closure has no composition test), in every state of the agent.
NextKeyup ==
    \/ InstallTextAgent
    \/ InstallDocumentEvents
    \/ RemoveAgent
    \/ Keyup(KeyboardEvents, MaxKeySent)
    \/ Touchend(MaxKeySent)
    \/ UpdateTextAgent({None}, {AllOk})

SpecKeyup == InitKeys /\ [][NextKeyup]_vars

\* SpecIme: typing through an IME into the agent a touch has focused: input
\* events inside and outside an open composition.
NextIme ==
    \/ InstallTextAgent
    \/ InstallDocumentEvents
    \/ Touchend(MaxSent)
    \/ CompositionStart
    \/ CompositionEnd
    \/ Input(InputTexts, MaxSent)
    \/ PropagateText

SpecIme == Init /\ [][NextIme]_vars

\* ------------------------------------------------------------------ claims
IsText(m) == is_some(m[1]) /\ m[1][1].type = "Text"
IsKey(m) == is_some(m[1]) /\ m[1][1].type = "Key"
HasText(msgs) == \E i \in DOMAIN msgs : IsText(msgs[i])
TouchMsg == Msg(None, Some(Fired))

RECURSIVE TotalLen(_, _)
\* Number of events in the input batches of the first n contexts.
TotalLen(ctx, n) == IF n = 0 THEN 0 ELSE Len(ctx[n]) + TotalLen(ctx, n - 1)

\* The last `n` elements of a sequence.
LastN(q, n) == SubSeq(q, Len(q) - n + 1, Len(q))

\* No DOM call of the last update_text_agent returned Err.
CallsOk ==
    \A i \in DOMAIN last.calls :
        last.calls[i] \notin {"focus:err", "blur:err", "position:err", "top:err"}
Called(c) == \E i \in DOMAIN last.calls : last.calls[i] = c

\* C1: the events pushed to the GUI input batches are, in order, a prefix of the
\* events sent on the channel, and what is sent and not yet pushed is exactly
\* what the channel still holds (nothing reordered, duplicated or dropped); a
\* frame with a focused context that completes leaves the channel empty, having
\* pushed everything sent so far, the frame's events at the end of that
\* context's batch, so that a following frame has nothing to push.
C1_ChannelOrder ==
    /\ IsPrefix(delivered, EventsOf(sent))
    /\ EventsOf(sent) = delivered \o EventsOf(channel)
    /\ TotalLen(contexts, NumContexts) = Len(delivered)
    /\ (last.op = "propagate_text" /\ last.target # 0 /\ ~panicked) =>
          /\ channel = <<>>
          /\ delivered = EventsOf(sent)
          /\ Len(contexts[last.target]) >= last.appended
          /\ LastN(contexts[last.target], last.appended) = LastN(delivered, last.appended)
    /\ (last.op = "propagate_text" /\ last.target = 0) =>
          last.appended = 0 /\ last.received = 0

\* C1 witness: one frame pushed three events, all that were ever sent, to one
\* context in the order they were sent.
C1_Witness ==
    /\ last.op = "propagate_text"
    /\ last.appended = 3
    /\ Len(sent) = 3
    /\ contexts[last.target] = EventsOf(sent)
    /\ sent[1] # sent[2] /\ sent[2] # sent[3]
    /\ channel = <<>>

\* C2: a keydown flagged as composing, or with key code 229, sends no message,
\* whatever its key and modifiers and whether the agent is absent, hidden or shown.
C2_ComposingKeydownSilent ==
    (last.op = "keydown" /\ (last.event.is_composing \/ last.event.key_code = 229)) =>
        /\ Enqueued = <<>>
        /\ ~panicked

\* C2 witness: a keydown of "a" with key code 229, not flagged as composing, no
\* modifier, agent hidden (the keydown that would otherwise send two messages).
C2_Witness ==
    /\ last.op = "keydown"
    /\ last.event.key = <<"a">>
    /\ last.event.key_code = 229
    /\ ~last.event.is_composing
    /\ ~last.event.ctrl_key /\ ~last.event.meta_key
    /\ last.agent_before = "hidden"
    /\ Enqueued = <<>>

\* C3: a keydown outside composition (not flagged, key code not 229) with neither
\* ctrl nor meta held, a key translate_key knows and the ignore list does not hold,
\* while the agent is hidden, sends exactly two messages: the Key press of the
\* translated key, then the Text of the raw key string.
C3_HiddenPrintableKeydown ==
    (/\ last.op = "keydown"
     /\ ~last.event.is_composing /\ last.event.key_code # 229
     /\ ~last.event.ctrl_key /\ ~last.event.meta_key
     /\ is_some(translate_key(last.event.key))
     /\ ~should_ignore_key(last.event.key)
     /\ last.agent_before = "hidden") =>
        /\ Len(Enqueued) = 2
        /\ Enqueued[1] = Msg(Some(KeyEvent(translate_key(last.event.key)[1], TRUE,
                                           modifiers_from_event(last.event))), None)
        /\ Enqueued[1][1][1].pressed
        /\ Enqueued[2] = Msg(Some(TextEvent(last.event.key)), None)
        /\ (last.event.key = <<"a">> => Enqueued[1][1][1].key = "A")

\* C3 witness: keydown of "a", no modifier, agent hidden: Key A pressed, then Text "a".
C3_Witness ==
    /\ last.op = "keydown"
    /\ last.event.key = <<"a">>
    /\ ~last.event.is_composing /\ last.event.key_code # 229
    /\ ~last.event.alt_key /\ ~last.event.ctrl_key
    /\ ~last.event.shift_key /\ ~last.event.meta_key
    /\ last.agent_before = "hidden"
    /\ Len(Enqueued) = 2
    /\ IsKey(Enqueued[1]) /\ Enqueued[1][1][1].key = "A" /\ Enqueued[1][1][1].pressed
    /\ Enqueued[2] = Msg(Some(TextEvent(<<"a">>)), None)

\* C4: while the agent is shown (found and not hidden) no keydown sends a Text:
\* it sends at most one message, the Key press alone for a key translate_key
\* knows (outside composition), nothing for a key it does not know.
C4_ShownKeydownNoText ==
    (last.op = "keydown" /\ last.agent_before = "visible") =>
        /\ ~HasText(Enqueued)
        /\ Len(Enqueued) <= 1
        /\ (is_some(translate_key(last.event.key)) /\ ~last.event.is_composing
              /\ last.event.key_code # 229) =>
              Enqueued = <<Msg(Some(KeyEvent(translate_key(last.event.key)[1], TRUE,
                                             modifiers_from_event(last.event))), None)>>
        /\ is_none(translate_key(last.event.key)) => Enqueued = <<>>

\* C4 witness: after a touchend has shown the agent, a plain keydown of "a"
\* sends the Key press only.
C4_Witness ==
    /\ last.op = "keydown"
    /\ last.agent_before = "visible"
    /\ last.event.key = <<"a">>
    /\ ~last.event.is_composing /\ last.event.key_code # 229
    /\ ~last.event.ctrl_key /\ ~last.event.meta_key
    /\ TouchMsg \in {sent[i] : i \in 1..last.n_before}
    /\ Len(Enqueued) = 1 /\ IsKey(Enqueued[1])

\* C5 as claimed: an input callback that finds a value of more than one character
\* leaves the value as it was and sends no Text.
C5_Claimed ==
    (last.op = "input" /\ Len(last.value_before) > 1) =>
        /\ document[last.target].value = last.value_before
        /\ ~HasText(Enqueued)

\* C5 as amended: an input callback that finds a value of more than one character
\* (the composing flag being false) sends no message and clears the value.
C5_LongValueCleared ==
    (last.op = "input" /\ Len(last.value_before) > 1 /\ ~last.is_composing) =>
        /\ document[last.target].value = <<>>
        /\ Enqueued = <<>>

\* C5 witness: the input callback ran on the value "ab" and left the value empty.
C5_Witness ==
    /\ last.op = "input"
    /\ last.value_before = <<"a", "b">>
    /\ document[last.target].value = <<>>
    /\ Enqueued = <<>>

\* C6: an input callback that finds a value of exactly one character, of any
\* script, with the composing flag false, sends exactly one Text carrying the
\* character and leaves the value empty.
C6_Claimed ==
    (last.op = "input" /\ Len(last.value_before) = 1 /\ ~last.is_composing) =>
        /\ Enqueued = <<Msg(Some(TextEvent(last.value_before)), None)>>
        /\ document[last.target].value = <<>>

\* C7: at most one element with the agent's id is in the document.
C7_Claimed == NumAgents <= 1

\* C8: no callback and no frame panics.
C8_Claimed == ~panicked

\* C9: update_text_agent(true, Some(pos)) on a hidden agent, agent and canvas in
\* the document, unhides the agent and calls focus(); the agent is shown
\* afterwards, and focused whenever that focus() call returns Ok.
C9_EnterEdit ==
    (/\ last.op = "update_text_agent"
     /\ last.editing_text /\ is_some(last.maybe_touch_pos)
     /\ last.agent_before = "hidden"
     /\ last.canvas_found) =>
        /\ AgentState(document) = "visible"
        /\ Called("focus:ok") \/ Called("focus:err")
        /\ Called("focus:ok") => document[text_agent(document)].focused

\* C9 witness: such a call, whose focus() succeeded, left the agent shown and focused.
C9_Witness ==
    /\ last.op = "update_text_agent"
    /\ last.editing_text /\ last.maybe_touch_pos = Some(60)
    /\ last.agent_before = "hidden"
    /\ last.canvas_found
    /\ Called("focus:ok")
    /\ AgentState(document) = "visible"
    /\ document[text_agent(document)].focused

\* C10: update_text_agent(false, _) on a shown agent, agent and canvas in the
\* document, whose DOM calls return Ok, leaves the agent blurred and hidden and
\* the canvas at position absolute, top 0%, whatever the top was before and
\* whatever touch position is passed.
C10_LeaveEdit ==
    (/\ last.op = "update_text_agent"
     /\ ~last.editing_text
     /\ last.agent_before = "visible"
     /\ last.canvas_found
     /\ CallsOk) =>
        /\ AgentState(document) = "hidden"
        /\ ~document[text_agent(document)].focused
        /\ CanvasTop(document) = Some(0)
        /\ document[query_selector(document, "canvas")].style.position = Some("absolute")

\* C10 witness: the canvas had been moved to -30% by an earlier enter-edit call;
\* the call, given a touch position, hid the agent and put the canvas back at 0%.
C10_Witness ==
    /\ last.op = "update_text_agent"
    /\ ~last.editing_text /\ is_some(last.maybe_touch_pos)
    /\ last.agent_before = "visible"
    /\ last.canvas_found /\ last.top_before = Some(-30)
    /\ CallsOk
    /\ AgentState(document) = "hidden"
    /\ CanvasTop(document) = Some(0)

\* C11: update_text_agent(true, _) on an agent that is already shown changes
\* nothing: the document (the agent's hidden flag and focus, the canvas's
\* position and top) is as before and no focus() call is made, for every touch
\* position, with or without a canvas, focused or not.
C11_AlreadyShownNoOp ==
    [][(/\ last'.op = "update_text_agent"
        /\ last'.editing_text
        /\ AgentState(document) = "visible") =>
           /\ document' = document
           /\ \A i \in DOMAIN last'.calls :
                 last'.calls[i] \notin {"focus:ok", "focus:err", "set_hidden(false)"}]_vars

\* C11 witness: the call, with a touch position, on an agent a touchend left
\* shown but unfocused (its focus() failed): still shown, still unfocused.
C11_Witness ==
    /\ last.op = "update_text_agent"
    /\ last.editing_text /\ last.maybe_touch_pos = Some(90)
    /\ last.agent_before = "visible"
    /\ last.canvas_found
    /\ last.calls = <<>>
    /\ AgentState(document) = "visible"
    /\ ~document[text_agent(document)].focused
    /\ CanvasTop(document) = None

Abs(n) == IF n >= 0 THEN n ELSE -n

\* The offset the claim states for a touch at y px, in percent:
\* round(100 * max(0.3 - f, -0.4)) with f = y / WindowHeight.
ClaimedOffset(y) ==
    LET v == IF 30 * WindowHeight - 100 * y >= -40 * WindowHeight
             THEN 30 * WindowHeight - 100 * y
             ELSE -40 * WindowHeight
    IN  CHOOSE n \in -100..100 : 2 * Abs(n * WindowHeight - v) <= WindowHeight

\* C12: on entering edit (update_text_agent(true, Some(pos)), agent hidden, canvas
\* present) the canvas style changes only on a mobile user agent with the touch
\* below 0.4 of the window height; the top then written is
\* round(100 * max(0.3 - f, -0.4)) percent with position absolute, never below
\* -40, and -30 for f = 0.6; when every DOM call returns Ok the shift is made;
\* on any other user agent or with f <= 0.4 the canvas style is left as it was.
C12_CanvasShift ==
    [][(/\ last'.op = "update_text_agent"
        /\ last'.editing_text /\ is_some(last'.maybe_touch_pos)
        /\ AgentState(document) = "hidden"
        /\ query_selector(document, "canvas") # 0) =>
           LET c == query_selector(document, "canvas")
               y == last'.maybe_touch_pos[1]
               shifts == user_agent = UA_Mobile /\ 100 * y > 40 * WindowHeight
               wrote == \E i \in DOMAIN last'.calls : last'.calls[i] = "top:ok"
               failed == \E i \in DOMAIN last'.calls :
                            last'.calls[i] \in {"focus:err", "position:err", "top:err"}
           IN  /\ document'[c].style # document[c].style => shifts
               /\ ~shifts => document'[c].style = document[c].style /\ ~wrote
               /\ wrote =>
                     /\ document'[c].style.top = Some(ClaimedOffset(y))
                     /\ document'[c].style.position = Some("absolute")
                     /\ ClaimedOffset(y) >= -40
                     /\ (y * 10 = WindowHeight * 6 => ClaimedOffset(y) = -30)
               /\ (shifts /\ ~failed) => wrote]_vars

\* C12 witness: a mobile page, a touch at 0.6 of the window height on a canvas
\* that had no top: the call wrote top -30%.
C12_Witness ==
    /\ last.op = "update_text_agent"
    /\ last.editing_text /\ last.maybe_touch_pos = Some(60)
    /\ last.agent_before = "hidden"
    /\ last.canvas_found /\ last.top_before = None
    /\ user_agent = UA_Mobile
    /\ Called("top:ok")
    /\ CanvasTop(document) = Some(-30)

\* C13: a keyup sends exactly one message, the Key event of the translated key
\* with pressed = false and the event's modifiers, when translate_key knows the
\* key, and nothing otherwise; never a Text; the document (the agent's hidden
\* flag and focus) is untouched and nothing panics, whether the agent is absent,
\* hidden or shown, whatever the modifiers and the composition flag.
C13_KeyupRelease ==
    [][last'.op = "keyup" =>
          LET new == SubSeq(sent', Len(sent) + 1, Len(sent'))
              t == translate_key(last'.event.key)
          IN  /\ document' = document
              /\ ~panicked'
              /\ channel' = channel \o new
              /\ ~HasText(new)
              /\ is_some(t) =>
                    /\ Len(new) = 1
                    /\ IsKey(new[1])
                    /\ new[1][2] = None
                    /\ new[1][1][1].key = t[1]
                    /\ ~new[1][1][1].pressed
                    /\ new[1][1][1].modifiers = modifiers_from_event(last'.event)
              /\ is_none(t) => new = <<>>]_vars

\* C13 witness: keyup of "a" with ctrl held while the agent is shown sent the
\* release of key A, with the ctrl modifier recorded.
C13_Witness ==
    /\ last.op = "keyup"
    /\ last.event.key = <<"a">> /\ last.event.ctrl_key
    /\ last.agent_before = "visible"
    /\ Len(Enqueued) = 1
    /\ IsKey(Enqueued[1])
    /\ Enqueued[1][1][1].key = "A"
    /\ ~Enqueued[1][1][1].pressed
    /\ Enqueued[1][1][1].modifiers.ctrl

\* C14: every run of propagate_text that completes leaves the channel empty
\* (no run sends, so all that the channel holds afterwards was sent before the
\* run began) and has pushed every event sent so far.
C14_Claimed ==
    (last.op = "propagate_text" /\ ~panicked) =>
        /\ channel = <<>>
        /\ delivered = EventsOf(sent)

\* C15: in a run of propagate_text, a context that is not focused, or that comes
\* after a focused one in iteration order, keeps its input batch; the first
\* focused context gets every event pushed in the run, appended to its batch,
\* and, when the run completes, these are the events of all the messages the
\* channel held.
C15_FirstFocusedOnly ==
    [][last'.op = "propagate_text" =>
          LET f == last'.focused
              hits == {i \in 1..NumContexts : f[i]}
          IN  /\ \A i \in 1..NumContexts :
                    (~f[i] \/ \E j \in hits : j < i) => contexts'[i] = contexts[i]
              /\ \A i \in hits :
                    (\A j \in hits : i <= j) =>
                       /\ IsPrefix(contexts[i], contexts'[i])
                       /\ Len(contexts'[i]) - Len(contexts[i])
                             = Len(delivered') - Len(delivered)
                       /\ ~panicked' =>
                             /\ contexts'[i] = contexts[i] \o EventsOf(channel)
                             /\ channel' = <<>>]_vars

\* C15 witness: both contexts reported focus; the run pushed two events or more,
\* all to the first context, and the second context's batch is still empty.
C15_Witness ==
    /\ last.op = "propagate_text"
    /\ last.focused[1] /\ last.focused[2]
    /\ last.appended >= 2
    /\ ~panicked
    /\ Len(contexts[1]) = last.appended
    /\ contexts[1] = delivered
    /\ contexts[2] = <<>>

\* The messages the last run of propagate_text received, in order.
Received ==
    SubSeq(sent, Len(sent) - Len(channel) - last.received + 1, Len(sent) - Len(channel))

\* C16 as claimed: a run of propagate_text that completes sends a RequestRedraw
\* exactly when it pushed at least one event, and never more than one.
C16_Claimed ==
    (last.op = "propagate_text" /\ ~panicked) =>
        /\ redraws <= 1
        /\ redraws = 1 <=> last.appended >= 1

\* C16 as amended: a run of propagate_text that completes sends a RequestRedraw
\* exactly when it received at least one message from the channel, a touch
\* message that carries no event included, and never more than one; so a run
\* that pushed an event requests a redraw, and a run that received nothing (or
\* had no focused context) requests none.
C16_RedrawOnReceive ==
    (last.op = "propagate_text" /\ ~panicked) =>
        /\ redraws <= 1
        /\ redraws = 1 <=> last.received >= 1
        /\ last.appended >= 1 => redraws = 1
        /\ last.target = 0 => redraws = 0

\* C16 witness: a run received one message, the touch message, pushed no event
\* and requested a redraw.
C16_Witness ==
    /\ last.op = "propagate_text"
    /\ ~panicked
    /\ last.received = 1
    /\ Received = <<TouchMsg>>
    /\ last.appended = 0
    /\ redraws = 1

\* C17: a failing focus() or blur() does not stop the operation: update_text_agent
\* (false, _) whose blur() fails still leaves the agent hidden and the canvas
\* top at 0%; update_text_agent(true, Some(pos)) on a hidden agent whose focus()
\* fails still shifts the canvas on a mobile page with the touch below 0.4;
\* a touchend whose focus() fails still sends the touch message. (The canvas
\* style calls themselves not failing.)
C17_Claimed ==
    /\ (/\ last.op = "update_text_agent" /\ ~last.editing_text
         /\ last.agent_before # "absent" /\ last.canvas_found
         /\ Called("blur:err")
         /\ ~Called("position:err") /\ ~Called("top:err")) =>
            /\ AgentState(document) = "hidden"
            /\ CanvasTop(document) = Some(0)
    /\ (/\ last.op = "update_text_agent" /\ last.editing_text
         /\ is_some(last.maybe_touch_pos)
         /\ last.agent_before = "hidden" /\ last.canvas_found
         /\ Called("focus:err")
         /\ ~Called("position:err") /\ ~Called("top:err")
         /\ user_agent = UA_Mobile
         /\ 100 * last.maybe_touch_pos[1] > 40 * WindowHeight) =>
            CanvasTop(document) = Some(ClaimedOffset(last.maybe_touch_pos[1]))
    /\ (last.op = "touchend" /\ Called("focus:err")) => Enqueued = <<TouchMsg>>

\* C18: the composing flag of an agent is true exactly while a composition is
\* open in it, and an input callback that runs while a composition is open
\* sends no Text and leaves the element's value as it found it.
C18_Claimed ==
    /\ \A i \in DOMAIN document :
          document[i].id = AGENT_ID =>
             (document[i].is_composing <=> document[i].composition)
    /\ (last.op = "input" /\ document[last.target].composition
           /\ last.value_before # <<>>) =>
          /\ ~HasText(Enqueued)
          /\ document[last.target].value = last.value_before

\* C19: a run of propagate_text that completes with no editing to report (no
\* focused context, or one whose platform output has neither an IME cursor
\* rectangle nor mutable text under the cursor) does not leave the agent shown;
\* when the run received a touch message and the agent is in the document, the
\* agent is hidden and unfocused and the canvas top is 0% afterwards.
C19_Claimed ==
    (last.op = "propagate_text" /\ ~panicked /\ ~last.editing_text) =>
        /\ AgentState(document) # "visible"
        /\ (/\ \E i \in DOMAIN Received : Received[i] = TouchMsg
            /\ AgentState(document) # "absent") =>
               /\ AgentState(document) = "hidden"
               /\ ~document[text_agent(document)].focused
               /\ CanvasTop(document) = Some(0)

\* C20: every agent element in the document is focused exactly when it is not
\* hidden, so that for the agent a lookup by id finds exactly one text path is
\* open: the keydown closure's (agent hidden) or the input callback's (agent
\* focused).
C20_Claimed ==
    \A i \in DOMAIN document :
        document[i].id = AGENT_ID => (document[i].focused <=> ~document[i].hidden)

====
